---------------------------- MODULE Spec2Model ----------------------------
(***************************************************************************)
(* Feedback-aware rerankers of RAGMeUp.                                    *)
(*                                                                         *)
(*   server/Reranker_Lis.py, server/Reranker.py                            *)
(*       Reranker.combiner, compute_relevance_score,                       *)
(*       rerank_documents_with_feedback        (the lexical, BM25 path)    *)
(*   server/scored_cross_encoder_reranker.py                               *)
(*       FeedbackAwareCrossEncoderReranker     (the semantic path)         *)
(*                                                                         *)
(* Python strings that the code takes apart character by character (the    *)
(* serialized document_id field, the document ids) are sequences of        *)
(* one-character strings.  A pandas DataFrame is the sequence of its rows. *)
(* Fractional numbers are integers in a fixed unit: tenths on the lexical  *)
(* path, 1/Scale on the semantic path; float rounding is not modelled.     *)
(* The dataframe calls behave as in the pandas releases the code was       *)
(* written for (fillna(..., inplace=True) on a column fills the frame).    *)
(* FeedbackAwareCrossEncoderReranker is read as plain Python: __init__      *)
(* stores its arguments as attributes.                                     *)
(***************************************************************************)
EXTENDS Integers, Sequences, FiniteSets, TLC

VARIABLES
    pc,                 \* which call has completed last
    error,              \* the exception the last call raised, or "none"
    records,            \* the feedback records the Feedback table was written from
    feedback,           \* Reranker: the Feedback table read by get_feedback_reranker
    documents_lst,      \* Reranker: the candidate documents
    feedback_rating_df, \* combiner's local aggregate (bound or not, and its rows)
    combined_df,        \* what combiner returned
    sorted_df,          \* what rerank_documents_with_feedback returned
    relevance_score,    \* what a direct call of compute_relevance_score returned
    call_args,          \* the arguments of that direct call
    model_scores,       \* semantic path: what self.model.score returned
    feedback_df,        \* FeedbackAwareCrossEncoderReranker.feedback_df
    top_n,              \* FeedbackAwareCrossEncoderReranker.top_n
    feedback_weight,    \* FeedbackAwareCrossEncoderReranker.feedback_weight, in tenths
    documents,          \* the documents given to compress_documents
    compressed          \* what compress_documents returned

vars == <<pc, error, records, feedback, documents_lst, feedback_rating_df,
          combined_df, sorted_df, relevance_score, call_args, model_scores,
          feedback_df, top_n, feedback_weight, documents, compressed>>

lexVars == <<records, feedback, documents_lst, feedback_rating_df, combined_df,
             sorted_df>>

fuseVars == <<relevance_score, call_args>>

semVars == <<model_scores, feedback_df, top_n, feedback_weight, documents,
             compressed>>

-----------------------------------------------------------------------------
(* Bounds of the model *)

MaxRecords == 2

MaxDocs == 2

MaxFeedbackRows == 2

MaxDocuments == 2

MaxTopN == 2

-----------------------------------------------------------------------------
(* Generic helpers *)

SeqsUpTo(S, n) == UNION {[1..k -> S] : k \in 0..n}

RECURSIVE SumSeq(_)
SumSeq(s) == IF s = <<>> THEN 0 ELSE Head(s) + SumSeq(Tail(s))

Permutations1(n) == {p \in [1..n -> 1..n] : \A i, j \in 1..n : p[i] = p[j] => i = j}

-----------------------------------------------------------------------------
(* Python str methods used by combiner *)

IsPrefix(p, s) == Len(p) <= Len(s) /\ SubSeq(s, 1, Len(p)) = p

\* s.replace(old, ''): leftmost non-overlapping occurrences are removed
RECURSIVE StrRemove(_, _)
StrRemove(s, old) ==
    IF s = <<>> THEN <<>>
    ELSE IF IsPrefix(old, s)
         THEN StrRemove(SubSeq(s, Len(old) + 1, Len(s)), old)
         ELSE <<Head(s)>> \o StrRemove(Tail(s), old)

\* s.split(sep) for a one-character sep: always at least one piece
RECURSIVE StrSplit(_, _)
StrSplit(s, sep) ==
    IF \A i \in 1..Len(s) : s[i] # sep THEN <<s>>
    ELSE LET k == CHOOSE i \in 1..Len(s) : s[i] = sep /\ \A j \in 1..(i - 1) : s[j] # sep
         IN  <<SubSeq(s, 1, k - 1)>> \o StrSplit(SubSeq(s, k + 1, Len(s)), sep)

RECURSIVE LStrip(_, _)
LStrip(s, c) == IF s # <<>> /\ Head(s) = c THEN LStrip(Tail(s), c) ELSE s

RECURSIVE RStrip(_, _)
RStrip(s, c) ==
    IF s # <<>> /\ s[Len(s)] = c THEN RStrip(SubSeq(s, 1, Len(s) - 1), c) ELSE s

\* s.strip(c) for a one-character c
StrStrip(s, c) == RStrip(LStrip(s, c), c)

Quote == "\""

-----------------------------------------------------------------------------
(* Input domains of the lexical path *)

\* document ids (file names of the data directory)
DocIds == {<<"a">>, <<"b">>}

Ratings == {1, 2}

\* the FeedbackRecord.document_ids lists
DocumentIdLists == {<<>>, <<<<"a">>>>, <<<<"b">>>>, <<<<"a">>, <<"b">>>>, <<<<"b">>, <<"a">>>>}

FeedbackRecords == [document_ids : DocumentIdLists, rating : Ratings]

\* how the writer of the Feedback table lays out a list: ["a","b"] or ["a", "b"]
Styles == {"compact", "spaced"}

Separator(style) == IF style = "compact" THEN <<",">> ELSE <<",", " ">>

RECURSIVE JoinIds(_, _)
JoinIds(ids, sep) ==
    IF ids = <<>> THEN <<>>
    ELSE IF Len(ids) = 1 THEN <<Quote>> \o Head(ids) \o <<Quote>>
    ELSE <<Quote>> \o Head(ids) \o <<Quote>> \o sep \o JoinIds(Tail(ids), sep)

\* the serialized document_id column of one record
Serialize(ids, style) == <<"[">> \o JoinIds(ids, Separator(style)) \o <<"]">>

FeedbackTable(recs, style) ==
    [i \in DOMAIN recs |->
        [document_id |-> Serialize(recs[i].document_ids, style),
         rating |-> recs[i].rating]]

Bm25Scores == {0, 2}

-----------------------------------------------------------------------------
(* Reranker.combiner *)

\* feedback['document_id'][doc].replace('[','').replace(']','').replace(' " ','').split(',')
ParseDocumentIds(field) ==
    StrSplit(StrRemove(StrRemove(StrRemove(field, <<"[">>), <<"]">>),
                       <<" ", Quote, " ">>), ",")

\* document_id = document_ids[doc_id].strip('"')
CleanDocumentId(piece) == StrStrip(piece, Quote)

NewRow(document_id, rating) == [document_id |-> document_id, rating |-> rating]

Unbound == [bound |-> FALSE, rows |-> <<>>]

HasId(rows, document_id) == \E i \in DOMAIN rows : rows[i].document_id = document_id

\* the body of the inner loop: create the frame on first use, then add or append
AccumulateRow(df, document_id, rating) ==
    LET new_row == NewRow(document_id, rating)
        rows1   == IF ~df.bound THEN <<new_row>> ELSE df.rows
        rows2   == IF HasId(rows1, document_id)
                   THEN [i \in DOMAIN rows1 |->
                            IF rows1[i].document_id = document_id
                            THEN [rows1[i] EXCEPT !.rating = @ + rating]
                            ELSE rows1[i]]
                   ELSE Append(rows1, new_row)
    IN  [bound |-> TRUE, rows |-> rows2]

RECURSIVE AccumulateIds(_, _, _)
AccumulateIds(df, pieces, rating) ==
    IF pieces = <<>> THEN df
    ELSE AccumulateIds(AccumulateRow(df, CleanDocumentId(Head(pieces)), rating),
                       Tail(pieces), rating)

\* the outer loop over the rows of the Feedback table
RECURSIVE AggregateFeedback(_, _)
AggregateFeedback(df, fb) ==
    IF fb = <<>> THEN df
    ELSE AggregateFeedback(
             AccumulateIds(df, ParseDocumentIds(Head(fb).document_id), Head(fb).rating),
             Tail(fb))

\* pd.merge(left, right, left_on=lkey, right_on='document_id', how='left'):
\* every left row, in order, once per matching right row, or once with NaN
MatchesOf(right, key) ==
    SelectSeq(right, LAMBDA r : r.document_id = key)

RECURSIVE MergeLeft(_, _)
MergeLeft(docs, right) ==
    IF docs = <<>> THEN <<>>
    ELSE LET m == MatchesOf(right, Head(docs))
         IN  (IF m = <<>>
              THEN <<[document_id |-> Head(docs), rating |-> 0, isna |-> TRUE]>>
              ELSE [i \in DOMAIN m |->
                       [document_id |-> Head(docs), rating |-> m[i].rating, isna |-> FALSE]])
             \o MergeLeft(Tail(docs), right)

\* FillNa with the missing ratings filled by 1 instead of 0
FillNaOne(rows) ==
    [i \in DOMAIN rows |->
        [document_id |-> rows[i].document_id,
         rating |-> IF rows[i].isna THEN 1 ELSE rows[i].rating]]

\* combined_df['rating'].fillna(0, inplace=True); .astype(int)
FillNa(rows) ==
    [i \in DOMAIN rows |->
        [document_id |-> rows[i].document_id,
         rating |-> IF rows[i].isna THEN 0 ELSE rows[i].rating]]

Combiner ==
    /\ pc = "start"
    \* the candidate list is not empty: BM25Okapi cannot be built over no document
    /\ \E recs \in SeqsUpTo(FeedbackRecords, MaxRecords), style \in Styles,
          docs \in (SeqsUpTo(DocIds, MaxDocs) \ {<<>>}) :
          LET fb == FeedbackTable(recs, style)
              df == AggregateFeedback(Unbound, fb)
          IN  /\ records' = recs
              /\ feedback' = fb
              /\ documents_lst' = docs
              /\ feedback_rating_df' = df
              /\ IF df.bound
                 THEN /\ combined_df' = FillNa(MergeLeft(docs, df.rows))
                      /\ pc' = "combined"
                      /\ error' = "none"
                 ELSE \* feedback_rating_df is read at the merge without being assigned
                      /\ combined_df' = <<>>
                      /\ pc' = "raised"
                      /\ error' = "UnboundLocalError"
    /\ UNCHANGED <<sorted_df, fuseVars, semVars>>

-----------------------------------------------------------------------------
(* Reranker.retrieve_with_bm25, compute_relevance_score,                     *)
(* rerank_documents_with_feedback                                            *)

\* alpha=0.7 and beta=0.3, in tenths
Alpha == 7

Beta == 3

\* BM25Okapi is a library: its scores are an input, one per document, in order
RetrieveWithBm25(docs, scores) ==
    [i \in DOMAIN docs |-> [document |-> docs[i], bm25_score |-> scores[i]]]

\* alpha * bm25_score_weight + beta * feedback_weight, in tenths
ComputeRelevanceScore(bm25_score_weight, fb_weight, alpha, beta) ==
    alpha * bm25_score_weight + beta * fb_weight

\* pd.merge(bm25_df, combined_df, left_on='document', right_on='document_id', how='left')
RECURSIVE MergeBm25(_, _)
MergeBm25(bm25_df, cdf) ==
    IF bm25_df = <<>> THEN <<>>
    ELSE LET l == Head(bm25_df)
             m == MatchesOf(cdf, l.document)
         IN  (IF m = <<>>
              THEN <<[document |-> l.document, bm25_score |-> l.bm25_score,
                      document_id |-> <<>>, rating |-> 0, isna |-> TRUE]>>
              ELSE [i \in DOMAIN m |->
                       [document |-> l.document, bm25_score |-> l.bm25_score,
                        document_id |-> m[i].document_id, rating |-> m[i].rating,
                        isna |-> FALSE]])
             \o MergeBm25(Tail(bm25_df), cdf)

\* the loop that fills the relevance_score column
WithRelevance(rows) ==
    [i \in DOMAIN rows |->
        [document |-> rows[i].document, bm25_score |-> rows[i].bm25_score,
         document_id |-> rows[i].document_id, rating |-> rows[i].rating,
         isna |-> rows[i].isna,
         relevance_score |->
             ComputeRelevanceScore(rows[i].bm25_score, rows[i].rating, Alpha, Beta)]]

RemoveFirst(s, x) ==
    LET k == CHOOSE i \in DOMAIN s : s[i] = x /\ \A j \in 1..(i - 1) : s[j] # x
    IN  SubSeq(s, 1, k - 1) \o SubSeq(s, k + 1, Len(s))

\* sort_values(by='relevance_score', ascending=False): the default sort kind is
\* not stable, so rows of equal relevance_score may come out in any order
RECURSIVE SortValuesDescending(_)
SortValuesDescending(rows) ==
    IF rows = <<>> THEN {<<>>}
    ELSE LET top == {rows[i] : i \in {j \in DOMAIN rows :
                         \A k \in DOMAIN rows :
                             rows[k].relevance_score <= rows[j].relevance_score}}
         IN  UNION {{<<r>> \o rest : rest \in SortValuesDescending(RemoveFirst(rows, r))}
                    : r \in top}

RerankDocumentsWithFeedback ==
    /\ pc = "combined"
    /\ \E scores \in [DOMAIN documents_lst -> Bm25Scores] :
          LET bm25_df == RetrieveWithBm25(documents_lst, scores)
              merged  == WithRelevance(MergeBm25(bm25_df, combined_df))
          IN  sorted_df' \in SortValuesDescending(merged)
    /\ pc' = "reranked"
    /\ UNCHANGED <<error, records, feedback, documents_lst, feedback_rating_df,
                   combined_df, fuseVars, semVars>>

\* compute_relevance_score called with weights of the caller's choosing
Weights == {-7, 0, 7}

CallComputeRelevanceScore ==
    /\ pc = "start"
    /\ \E bm25 \in Bm25Scores, fb \in 0..3, alpha \in Weights, beta \in Weights :
          /\ call_args' = [bm25_score_weight |-> bm25, feedback_weight |-> fb,
                           alpha |-> alpha, beta |-> beta]
          /\ relevance_score' = ComputeRelevanceScore(bm25, fb, alpha, beta)
    /\ pc' = "scored"
    /\ UNCHANGED <<error, lexVars, semVars>>

-----------------------------------------------------------------------------
(* FeedbackAwareCrossEncoderReranker *)

RECURSIVE Factorial(_)
Factorial(n) == IF n <= 1 THEN 1 ELSE n * Factorial(n - 1)

\* semantic-path numbers are integers in units of 1/Scale, which keeps the
\* mean of up to MaxFeedbackRows ratings and the weighted sum exact
Scale == 100 * Factorial(MaxFeedbackRows)

\* "Defaulting to 0.5"
DefaultFeedbackScore == Scale \div 2

Sources == {"s1", "s2"}

TotalRatings == {0, 1}

\* feedback_weight in tenths (the default is 0.5): inside [0, 1] and outside
FeedbackWeightSeq == <<5, 0, 10, -5, 15>>

\* top_n: 1..MaxTopN, then -1 and 0
TopNAt(k) == IF k <= MaxTopN THEN k ELSE k - MaxTopN - 2

\* cross-encoder scores 0.2 and 0.8
CrossEncoderScores == {(2 * Scale) \div 10, (8 * Scale) \div 10}

NoFeedbackDf == [given |-> FALSE, rows |-> <<>>]

FeedbackDfs ==
    {NoFeedbackDf} \cup
    {[given |-> TRUE, rows |-> r] :
        r \in SeqsUpTo([document_name : Sources, total_rating : TotalRatings],
                       MaxFeedbackRows)}

NoMetadata == [k \in {} |-> ""]

\* the i-th document of a call: its page_content tells the positions apart
Documents(n) ==
    {[i \in 1..n |-> [page_content |-> i, metadata |-> md[i]]] :
        md \in [1..n -> {NoMetadata} \cup {[source |-> s] : s \in Sources}]}

\* document.metadata.get('source', '')
SourceOf(document) ==
    IF "source" \in DOMAIN document.metadata THEN document.metadata.source ELSE ""

GetDocumentFeedbackScore(fdf, document) ==
    IF ~fdf.given THEN DefaultFeedbackScore
    ELSE LET matching_rows ==
                 SelectSeq(fdf.rows, LAMBDA r : r.document_name = SourceOf(document))
         IN  IF matching_rows = <<>> THEN DefaultFeedbackScore
             ELSE (SumSeq([i \in DOMAIN matching_rows |-> matching_rows[i].total_rating])
                       * Scale) \div Len(matching_rows)

\* (1 - feedback_weight) * cross_encoder_score + feedback_weight * feedback_score
CombinedScore(weight, cross_encoder_score, feedback_score) ==
    ((10 - weight) * cross_encoder_score + weight * feedback_score) \div 10

\* InsertDescending that places an item before the items of equal score
RECURSIVE InsertDescendingUnstable(_, _)
InsertDescendingUnstable(sorted, x) ==
    IF sorted = <<>> THEN <<x>>
    ELSE IF Head(sorted)[2] > x[2]
         THEN <<Head(sorted)>> \o InsertDescendingUnstable(Tail(sorted), x)
         ELSE <<x>> \o sorted

\* sorted(docs_with_scores, key=itemgetter(1), reverse=True): stable
RECURSIVE InsertDescending(_, _)
InsertDescending(sorted, x) ==
    IF sorted = <<>> THEN <<x>>
    ELSE IF Head(sorted)[2] >= x[2]
         THEN <<Head(sorted)>> \o InsertDescending(Tail(sorted), x)
         ELSE <<x>> \o sorted

RECURSIVE SortedReverse(_)
SortedReverse(s) ==
    IF s = <<>> THEN <<>>
    ELSE InsertDescending(SortedReverse(SubSeq(s, 1, Len(s) - 1)), s[Len(s)])

\* SlicePrefix that stops one item early: result[:n - 1]
SlicePrefixShort(s, n) ==
    IF n - 1 >= 0 THEN SubSeq(s, 1, IF n - 1 < Len(s) THEN n - 1 ELSE Len(s))
    ELSE SubSeq(s, 1, IF Len(s) + n - 1 > 0 THEN Len(s) + n - 1 ELSE 0)

\* result[:n]
SlicePrefix(s, n) ==
    IF n >= 0 THEN SubSeq(s, 1, IF n < Len(s) THEN n ELSE Len(s))
    ELSE SubSeq(s, 1, IF Len(s) + n > 0 THEN Len(s) + n ELSE 0)

\* doc.copy(update={"metadata": {**doc.metadata, ...}}): in the comprehension
\* both loop targets are unpacked from result[:top_n], so the name
\* cross_encoder_score is bound to the second item of the (doc, score) pair
Annotate(fdf, pair) ==
    LET doc == pair[1]
        score == pair[2]
        cross_encoder_score == pair[2]
    IN  [page_content |-> doc.page_content,
         metadata |-> [relevance_score |-> score,
                       cross_encoder_score |-> cross_encoder_score,
                       feedback_score |-> GetDocumentFeedbackScore(fdf, doc)]
                      @@ doc.metadata]

DocsWithScores(fdf, weight, docs, scores) ==
    [i \in DOMAIN docs |->
        <<docs[i], CombinedScore(weight, scores[i], GetDocumentFeedbackScore(fdf, docs[i]))>>]

CompressResult(fdf, weight, n, docs, scores) ==
    LET result == SortedReverse(DocsWithScores(fdf, weight, docs, scores))
        kept == SlicePrefix(result, n)
    IN  [i \in DOMAIN kept |-> Annotate(fdf, kept[i])]

\* __init__: the arguments are stored as given
Construct ==
    /\ pc = "start"
    /\ \E k \in 1..(MaxTopN + 2), fdf \in FeedbackDfs,
          w \in DOMAIN FeedbackWeightSeq :
          /\ top_n' = TopNAt(k)
          /\ feedback_df' = fdf
          /\ feedback_weight' = FeedbackWeightSeq[w]
    /\ pc' = "constructed"
    /\ UNCHANGED <<error, lexVars, fuseVars, model_scores, documents, compressed>>

CompressDocuments ==
    /\ pc = "constructed"
    /\ \E n \in 0..MaxDocuments :
          \E docs \in Documents(n), scores \in [1..n -> CrossEncoderScores] :
              /\ documents' = docs
              /\ model_scores' = scores
              /\ compressed' = CompressResult(feedback_df, feedback_weight, top_n,
                                              docs, scores)
    /\ pc' = "compressed"
    /\ UNCHANGED <<error, lexVars, fuseVars, feedback_df, top_n, feedback_weight>>

-----------------------------------------------------------------------------

Init ==
    /\ pc = "start"
    /\ error = "none"
    /\ records = <<>>
    /\ feedback = <<>>
    /\ documents_lst = <<>>
    /\ feedback_rating_df = Unbound
    /\ combined_df = <<>>
    /\ sorted_df = <<>>
    /\ relevance_score = 0
    /\ call_args = <<>>
    /\ model_scores = <<>>
    /\ feedback_df = NoFeedbackDf
    /\ top_n = 0
    /\ feedback_weight = 0
    /\ documents = <<>>
    /\ compressed = <<>>

Next ==
    \/ Combiner
    \/ RerankDocumentsWithFeedback
    \/ CallComputeRelevanceScore
    \/ Construct
    \/ CompressDocuments

Spec == Init /\ [][Next]_vars

-----------------------------------------------------------------------------
(* Properties *)

Contains(ids, id) == \E i \in DOMAIN ids : ids[i] = id

\* the sum of the ratings of the records whose document_ids contain id
RECURSIVE ExpectedRating(_, _)
ExpectedRating(recs, id) ==
    IF recs = <<>> THEN 0
    ELSE (IF Contains(Head(recs).document_ids, id) THEN Head(recs).rating ELSE 0)
         + ExpectedRating(Tail(recs), id)

InSomeRecord(id) == \E i \in DOMAIN records : Contains(records[i].document_ids, id)

RatingOf(rows, id) == (CHOOSE r \in {rows[i] : i \in DOMAIN rows} : r.document_id = id).rating

AsMapping(rows) == {<<rows[i].document_id, rows[i].rating>> : i \in DOMAIN rows}

Permute(s, p) == [i \in DOMAIN s |-> s[p[i]]]

CombinerReturned == pc \in {"combined", "reranked"}

CombinerCalled == pc \in {"combined", "reranked", "raised"}

\* C1: after combiner has aggregated the feedback records, the cumulative
\* rating held for every document id equals the sum of the ratings of exactly
\* the records whose document_ids contain that id.
C1_CumulativeRatingIsSum ==
    CombinerCalled =>
        \A id \in DocIds :
            InSomeRecord(id) =>
                /\ feedback_rating_df.bound
                /\ HasId(feedback_rating_df.rows, id)
                /\ RatingOf(feedback_rating_df.rows, id) = ExpectedRating(records, id)

\* C2: aggregation is order independent: every permutation of the record
\* sequence passed to combiner gives the same document-id to
\* cumulative-rating mapping.
C2_OrderIndependent ==
    CombinerCalled =>
        \A p \in Permutations1(Len(feedback)) :
            AsMapping(AggregateFeedback(Unbound, Permute(feedback, p)).rows)
                = AsMapping(feedback_rating_df.rows)

C4_EmptyFeedbackIsNoError ==
    (CombinerCalled /\ feedback = <<>> /\ documents_lst # <<>>) =>
        /\ pc # "raised"
        /\ error = "none"
        /\ Len(combined_df) = Len(documents_lst)
        /\ \A i \in DOMAIN combined_df : combined_df[i].rating = 0

\* C5: every document compress_documents returns carries its own scores:
\* cross_encoder_score is what the model returned for it, feedback_score is
\* the feedback score resolved for it, relevance_score is
\* (1 - feedback_weight) * cross_encoder_score + feedback_weight * feedback_score.
C5_AnnotatedWithOwnScores ==
    pc = "compressed" =>
        \A i \in DOMAIN compressed :
            LET md == compressed[i].metadata
                j  == compressed[i].page_content
                fs == GetDocumentFeedbackScore(feedback_df, documents[j])
            IN  /\ md.cross_encoder_score = model_scores[j]
                /\ md.feedback_score = fs
                /\ 10 * md.relevance_score
                       = (10 - feedback_weight) * model_scores[j] + feedback_weight * fs

\* C6: what compress_documents returns is in descending order of combined
\* score, and documents of equal combined score keep their input order.
C6_DescendingAndStable ==
    pc = "compressed" =>
        \A i, j \in DOMAIN compressed :
            i < j =>
                /\ compressed[i].metadata.relevance_score
                       >= compressed[j].metadata.relevance_score
                /\ compressed[i].metadata.relevance_score
                       = compressed[j].metadata.relevance_score
                   => compressed[i].page_content < compressed[j].page_content

\* C6 witness: two documents of equal combined score have been returned.
C6_Witness ==
    /\ pc = "compressed"
    /\ \E i, j \in DOMAIN compressed :
          /\ i < j
          /\ compressed[i].metadata.relevance_score
                 = compressed[j].metadata.relevance_score
          /\ compressed[i].page_content < compressed[j].page_content

Min(a, b) == IF a < b THEN a ELSE b

\* C7: compress_documents returns at most as many documents as it was given
\* and at least min(top_n, number given); with top_n above the number given it
\* returns every document, each once, and raises nothing.
C7_TopNBounds ==
    pc = "compressed" =>
        /\ error = "none"
        /\ Len(compressed) <= Len(documents)
        /\ Len(compressed) >= Min(top_n, Len(documents))
        /\ top_n > Len(documents) =>
               /\ Len(compressed) = Len(documents)
               /\ {compressed[i].page_content : i \in DOMAIN compressed}
                      = DOMAIN documents

\* C7 witness: top_n exceeded the number of documents and all came back.
C7_Witness ==
    /\ pc = "compressed"
    /\ top_n > Len(documents)
    /\ Len(compressed) = Len(documents)

\* C8: the ranked output of rerank_documents_with_feedback has exactly one
\* row per input candidate, also when a document id occurs more than once.
C8_OneRowPerCandidate ==
    pc = "reranked" => Len(sorted_df) = Len(documents_lst)

\* C9: the aggregate built by combiner never has an entry whose document id
\* is the empty string.
C9_NoEmptyIdentifier ==
    CombinerCalled => ~HasId(feedback_rating_df.rows, <<>>)

\* C10: a weight outside the sane range (feedback_weight outside [0, 1], a
\* negative alpha or beta) gives an error and never a ranking or a score.
C10_BadWeightsFailFast ==
    /\ (pc = "compressed" /\ feedback_weight \notin 0..10) =>
           (error # "none" /\ compressed = <<>>)
    /\ (pc = "scored" /\ (call_args.alpha < 0 \/ call_args.beta < 0)) =>
           error # "none"

IsBare(id) ==
    /\ id # <<>>
    /\ \A i \in DOMAIN id : id[i] \notin {"[", "]", Quote}
    /\ id[1] # " "
    /\ id[Len(id)] # " "

\* C11: when every serialized document_id field lists one or more identifiers
\* in brackets, with quotes and comma separators (with or without a space
\* after each comma), every identifier combiner accumulates under is a bare
\* identifier of its record: no bracket, no quote, no leading or trailing
\* space, so that it equals the candidate id.
C11_IdentifiersAreBare ==
    (CombinerCalled /\ \A i \in DOMAIN records : records[i].document_ids # <<>>) =>
        \A k \in DOMAIN feedback_rating_df.rows :
            /\ IsBare(feedback_rating_df.rows[k].document_id)
            /\ InSomeRecord(feedback_rating_df.rows[k].document_id)

=============================================================================
